---------------------------- MODULE Spec2Model ----------------------------
(***************************************************************************)
(* The payment reconciliation flow of the Telegram Mini App backend.       *)
(*                                                                         *)
(* Spec      models the latest revision, src/unnamed/part_004: profile     *)
(*           sync, update-level, balance add/subtract, /payments/create,   *)
(*           /payments/webhook, merchant cancel and refund.                *)
(* SpecC6    is Spec with the environment restricted to top-up creation    *)
(*           and concurrent CONFIRMED deliveries for distinct intents.     *)
(* SpecIndex models the first revision, src/index.js lines 1-261:          *)
(*           /payments/create and the unauthenticated /payments/callback.  *)
(* SpecRefund is Spec restricted to top-up, confirmation and refund.       *)
(* Spec002   models src/unnamed/part_002: /payments/create and             *)
(*           /payments/webhook/tinkoff on a fresh database.                *)
(* Spec001   models the balance handlers of the PostgreSQL revision,       *)
(*           src/unnamed/part_001 lines 294-359.                           *)
(* SpecNotify is top-up and CONFIRMED deliveries with the Telegram send    *)
(*           that may never complete, under weak fairness of the response. *)
(* SpecRefundRace is SpecRefund with two refund requests in flight.        *)
(*                                                                         *)
(* Money is counted in kopecks (1/100 of a currency unit), so the          *)
(* gateway's Amount / 100 and the handlers' amount * 100 are exact.  A     *)
(* handler that awaits is split at each await: the code before the await   *)
(* is one atomic step (Node runs a callback to completion), the code       *)
(* after it another, and other handlers may run in between.                *)
(***************************************************************************)
EXTENDS Integers, Sequences, FiniteSets, Bags, TLC

VARIABLES
    users,      \* db.users: telegramId -> account record
    payments,   \* db.payments: array of payment intents
    orders,     \* db.orders: orderId -> status
    pending,    \* handlers suspended at an await on the gateway or on Telegram
    clock,      \* Date.now()
    initial,    \* history: db.users as loaded by loadDB() at start-up
    paymentEvents   \* db.paymentEvents: the event log of part_002 (Spec002)

vars == <<users, payments, orders, pending, clock, initial, paymentEvents>>

-----------------------------------------------------------------------------
(* Bounds of the model and the inputs the environment draws from.          *)

MaxPayments == 1     \* records in db.payments (Spec)
MaxDeliveries == 2   \* notifications handled per payment (Spec)
MaxRefunds == 2      \* refund records per payment (Spec)
MaxInFlight == 1     \* handlers suspended at an await (Spec)
MaxBalance == 2000   \* the balance the environment stops adding at (Spec)
MaxIntents == 2      \* records in db.payments (SpecC6, SpecIndex)
MaxConcurrent == 2   \* handlers suspended at an await (SpecC6, SpecIndex)
MaxClock == 1        \* milliseconds that pass (SpecC6, SpecIndex)

\* the accounts of the store, and the one the requests of Spec are about
AllUsers == {"42", "7"}
Users == {"42"}

\* body.amount of /payments/create, in currency units
CreateAmounts == {0, 5, 10}

\* Amount of a notification, in kopecks
NotifyAmounts == {1000, 2000}

\* body.amount of the merchant refund, in currency units (0: absent, full refund)
RefundAmounts == {0, 30}

\* body.balance of POST /users, in kopecks
SyncBalances == {-100, 1000}

\* body.amount of balance add / subtract, in kopecks
AdjustAmounts == {0, 1000}

Statuses == {"NEW", "CONFIRMED", "REJECTED", "CANCELED", "REFUNDED", "AUTHORIZED"}

-----------------------------------------------------------------------------
(* Values.                                                                 *)

\* A JavaScript number-or-undefined: k is "num", "undef" or "nan".
Num(v) == [k |-> "num", v |-> v]
Undef == [k |-> "undef", v |-> 0]
NaN == [k |-> "nan", v |-> 0]

\* db.users[telegramId] when there is no such key
NoUser == [exists |-> FALSE, balance |-> Undef]

\* an order id nobody issued, and the id of a payment the gateway never created
UnknownOrder == <<"unknown", 0>>
NoOwner == "null"

\* `x || 0` for a balance: undefined, NaN and 0 all give 0
OrZero(b) == IF b.k = "num" THEN b.v ELSE 0

RECURSIVE SumSeq(_)
SumSeq(s) == IF s = <<>> THEN 0 ELSE Head(s) + SumSeq(Tail(s))

\* Array.prototype.find over the indices satisfying the test: the first of
\* them, 0 if none
FindFirst(matching) ==
    IF matching = {} THEN 0 ELSE CHOOSE i \in matching : \A j \in matching : i <= j

\* the indices of the payments `p.id === oid` holds for
WithId(oid) == {i \in 1..Len(payments) : payments[i].id = oid}

SetOrder(oid, st) ==
    [o \in (DOMAIN orders) \cup {oid} |-> IF o = oid THEN st ELSE orders[o]]

\* `if (order) order.status = st`
SetOrderIfAny(oid, st) == IF oid \in DOMAIN orders THEN SetOrder(oid, st) ELSE orders

InFlight == BagCardinality(pending)
Suspend(r) == pending (+) SetToBag({r})
Resume(r) == pending (-) SetToBag({r})

\* a suspended handler: what its closure holds across the await
Cont(kind, idx, tid, amount, oid) ==
    [kind |-> kind, idx |-> idx, tid |-> tid, amount |-> amount, oid |-> oid]

-----------------------------------------------------------------------------
(* The start-up state: loadDB() found no backup.                           *)

Init ==
    /\ users = [u \in AllUsers |-> NoUser]
    /\ payments = <<>>
    /\ orders = << >>
    /\ pending = EmptyBag
    /\ clock = 0
    /\ initial = users
    /\ paymentEvents = <<>>

\* a millisecond passes
Tick ==
    /\ clock' = clock + 1
    /\ UNCHANGED <<users, payments, orders, pending, initial, paymentEvents>>

-----------------------------------------------------------------------------
(* Accounts (part_004 lines 123-222 and 839-897).                          *)

\* POST /users: bal is body.balance (Undef when the body has none)
UsersSync(u, bal) ==
    /\ users' = [users EXCEPT ![u] =
            IF users[u].exists
            THEN [exists |-> TRUE,
                  balance |-> IF bal # Undef THEN bal ELSE users[u].balance]
            ELSE [exists |-> TRUE,
                  balance |-> IF bal # Undef THEN bal ELSE Num(0)]]
    /\ UNCHANGED <<payments, orders, pending, clock, initial, paymentEvents>>

\* POST /users/:telegramId/update-level with a level: a missing account is
\* created with no balance field
UpdateLevel(u) ==
    /\ users' = [users EXCEPT ![u] =
            IF users[u].exists THEN users[u] ELSE [exists |-> TRUE, balance |-> Undef]]
    /\ UNCHANGED <<payments, orders, pending, clock, initial, paymentEvents>>

\* `{ telegramId, balance: 0, createdAt }` when the account is missing
EnsureUser(us, u) ==
    IF us[u].exists THEN us ELSE [us EXCEPT ![u] = [exists |-> TRUE, balance |-> Num(0)]]

\* POST /users/:telegramId/balance/add
BalanceAdd(u, amount) ==
    /\ LET created == EnsureUser(users, u) IN
        users' = IF amount <= 0
                 THEN created
                 ELSE [created EXCEPT ![u].balance = Num(OrZero(created[u].balance) + amount)]
    /\ UNCHANGED <<payments, orders, pending, clock, initial, paymentEvents>>

\* `balance < amount` and `balance -= amount` on a JavaScript value
JsLess(b, amount) == b.k = "num" /\ b.v < amount
JsMinus(b, amount) == IF b.k = "num" THEN Num(b.v - amount) ELSE NaN

\* POST /users/:telegramId/balance/subtract
BalanceSubtract(u, amount) ==
    /\ users' =
          IF ~users[u].exists \/ amount <= 0 \/ JsLess(users[u].balance, amount)
          THEN users
          ELSE [users EXCEPT ![u].balance = JsMinus(users[u].balance, amount)]
    /\ UNCHANGED <<payments, orders, pending, clock, initial, paymentEvents>>

-----------------------------------------------------------------------------
(* Gateway notifications and their signature (part_004 lines 34-42).       *)

\* TINKOFF_PASSWORD, and a password that is not it
Secret == "secret"
WrongSecret == "guess"

\* createTinkoffToken: the values of the fields and of Password, in the order
\* of the sorted keys (Amount, OrderId, Password, PaymentId, Status), joined.
\* The digest of the joined string is kept as the string itself: SHA-256 is
\* taken to be collision-free.  A missing Amount adds nothing to the string.
createTinkoffToken(f, password) ==
    <<IF f.hasAmount THEN <<f.Amount>> ELSE <<>>, f.OrderId, password, f.PaymentId, f.Status>>

Fields(oid, pid, st, hasAmount, amount) ==
    [OrderId |-> oid, PaymentId |-> pid, Status |-> st,
     hasAmount |-> hasAmount, Amount |-> IF hasAmount THEN amount ELSE 0]

\* the Token the sender put in the body
\*   "signed":  the gateway's token over these very fields
\*   "absent":  no Token field               "empty": Token: ""
\*   "altered": the gateway's token over the fields before Amount was changed
\*   "forged":  a token computed with another password
TokenKinds == {"signed", "absent", "empty", "altered", "forged"}

OtherAmount(f) == IF f.hasAmount /\ f.Amount = 1000 THEN 2000 ELSE 1000

Token(f, kind) ==
    CASE kind = "signed"  -> [present |-> TRUE, value |-> createTinkoffToken(f, Secret)]
      [] kind = "altered" -> [present |-> TRUE,
                              value |-> createTinkoffToken(
                                  [f EXCEPT !.hasAmount = TRUE, !.Amount = OtherAmount(f)], Secret)]
      [] kind = "forged"  -> [present |-> TRUE, value |-> createTinkoffToken(f, WrongSecret)]
      [] kind = "empty"   -> [present |-> TRUE, value |-> <<>>]
      [] OTHER            -> [present |-> FALSE, value |-> <<>>]

Notification(f, kind) == [f |-> f, Token |-> Token(f, kind)]

\* `!receivedToken || receivedToken !== expectedToken` is false
TokenAccepted(n) ==
    /\ n.Token.present
    /\ n.Token.value # <<>>
    /\ n.Token.value = createTinkoffToken(n.f, Secret)

\* the order ids a notification may name: those of recorded payments, those of
\* creations still waiting for Init, and one nobody issued
OrderIdInputs ==
    {payments[i].id : i \in 1..Len(payments)}
        \cup {r.oid : r \in {c \in BagToSet(pending) : c.kind = "create"}}
        \cup {UnknownOrder}

\* the gateway's own id of the payment made for an order id (0: none)
GatewayIdOf(oid) ==
    LET i == FindFirst(WithId(oid)) IN
    IF i = 0 THEN 0 ELSE payments[i].tinkoffPaymentId

\* the PaymentId that comes with an OrderId: the gateway's id for that order;
\* with the unknown order id, any gateway id or none
PaymentIdInputs(oid) ==
    IF oid = UnknownOrder
    THEN {0} \cup {payments[i].tinkoffPaymentId : i \in 1..Len(payments)}
    ELSE {GatewayIdOf(oid)}

NotificationFields ==
    {Fields(oid, pid, st, h, a) :
        oid \in OrderIdInputs, pid \in 0..MaxPayments, st \in Statuses,
        h \in BOOLEAN, a \in NotifyAmounts}

Notifications ==
    {Notification(f, k) :
        f \in {g \in NotificationFields : g.PaymentId \in PaymentIdInputs(g.OrderId)},
        k \in TokenKinds}

-----------------------------------------------------------------------------
(* POST /payments/create (part_004 lines 226-343).                         *)

\* amounts are stored in kopecks; the handler's `amount` is in currency units
Kopecks(amount) == amount * 100

\* the idempotency check: the first active payment of this user and amount
ExistingPayment(u, amount) ==
    FindFirst({i \in 1..Len(payments) :
        /\ payments[i].telegramId = u
        /\ payments[i].amount = Kopecks(amount)
        /\ payments[i].status \in {"NEW", "PENDING"}})

\* `tg-${telegramId}-${Date.now()}`
OrderIdFor(u) == <<u, clock>>

\* a body without telegramId
NoId == ""

\* the validation left out
CreateInvalidNever(u, amount) == FALSE

\* `!telegramId || !amount || amount < 10`; a missing amount is amount 0
CreateInvalid(u, amount) == u = NoId \/ amount < 10

\* up to `await fetch(".../v2/Init")`; TINKOFF_TERMINAL_KEY is configured
CreateBegin(u, amount) ==
    IF CreateInvalid(u, amount)
    THEN UNCHANGED vars
    ELSE IF ExistingPayment(u, amount) # 0
    THEN /\ users' = EnsureUser(users, u)
         /\ UNCHANGED <<payments, orders, pending, clock, initial, paymentEvents>>
    ELSE /\ users' = EnsureUser(users, u)
         /\ orders' = SetOrder(OrderIdFor(u), "CREATED")
         /\ pending' = Suspend(Cont("create", 0, u, amount, OrderIdFor(u)))
         /\ UNCHANGED <<payments, clock, initial, paymentEvents>>

\* the payment record pushed once Init succeeded; gid is tinkoffJson.PaymentId
NewPayment(r, gid) ==
    [id |-> r.oid, telegramId |-> r.tid, amount |-> Kopecks(r.amount), status |-> "NEW",
     tinkoffPaymentId |-> gid, history |-> <<"NEW">>, refunds |-> <<>>,
     confirmations |-> <<>>]

\* the gateway numbers its payments; ours are the only ones on this terminal
NextGatewayId == Len(payments) + 1

\* after the await: Init answered Success, answered an error, or fetch threw
CreateEnd(r, answer) ==
    /\ r \in BagToSet(pending) /\ r.kind = "create"
    /\ pending' = Resume(r)
    /\ payments' = IF answer = "Success"
                   THEN Append(payments, NewPayment(r, NextGatewayId))
                   ELSE payments
    /\ UNCHANGED <<users, orders, clock, initial, paymentEvents>>

GatewayAnswers == {"Success", "Failure", "Throw"}

-----------------------------------------------------------------------------
(* POST /payments/webhook (part_004 lines 346-471).                        *)

\* `find(p.id === OrderId) || find(p.tinkoffPaymentId === PaymentId)`
FindPayment(f) ==
    LET byOrder == FindFirst(WithId(f.OrderId)) IN
    IF byOrder # 0 THEN byOrder
    ELSE FindFirst({i \in 1..Len(payments) : payments[i].tinkoffPaymentId = f.PaymentId})

\* `Amount` is truthy
HasAmount(f) == f.hasAmount /\ f.Amount # 0

\* a slip the claims must notice: the stub given to an account
StubPaymentOwned(f) ==
    [id |-> f.OrderId, telegramId |-> "42",
     amount |-> IF HasAmount(f) THEN f.Amount ELSE 0,
     status |-> IF f.Status # "" THEN f.Status ELSE "UNKNOWN",
     tinkoffPaymentId |-> f.PaymentId, history |-> <<>>, refunds |-> <<>>,
     confirmations |-> <<>>]

\* the record made for a notification that matches no payment
StubPayment(f) ==
    [id |-> f.OrderId, telegramId |-> NoOwner,
     amount |-> IF HasAmount(f) THEN f.Amount ELSE 0,
     status |-> IF f.Status # "" THEN f.Status ELSE "UNKNOWN",
     tinkoffPaymentId |-> f.PaymentId, history |-> <<>>, refunds |-> <<>>,
     confirmations |-> <<>>]

\* db.payments once the target of the notification is resolved
WithStub(f) == IF FindPayment(f) = 0 THEN Append(payments, StubPayment(f)) ELSE payments

\* `payment.telegramId ? db.users[payment.telegramId] : null` is an account
HasUser(p) == p.telegramId # NoOwner /\ users[p.telegramId].exists

\* a slip the claims must notice: `user.balance = delta`
CreditBalanceOverwrite(bal, delta) == Num(delta)

\* `user.balance = (user.balance || 0) + delta`
CreditBalance(bal, delta) == Num(OrZero(bal) + delta)

\* slips the claims must notice: the balance emptied, and the floor left out
DebitBalanceToZero(bal, delta) == Num(0)
DebitBalanceUnfloored(bal, delta) == Num(OrZero(bal) - delta)

\* `user.balance = Math.max(0, (user.balance || 0) - delta)`
DebitBalance(bal, delta) ==
    Num(IF OrZero(bal) - delta > 0 THEN OrZero(bal) - delta ELSE 0)

\* a slip the claims must notice: the notification left out of the history
HistoryPushSkipped(history, st) == history

\* `payment.history.push({ status: Status, rawStatus: Status, at: now })`
HistoryPush(history, st) == Append(history, st)

\* the payment after the history push and the switch on Status.  The field
\* `confirmations` is not in the code: it is the history of the correctly
\* signed CONFIRMED notifications handled for this payment.
Reconciled(p, f) ==
    LET q == [p EXCEPT !.history = HistoryPush(@, f.Status),
                       !.confirmations = IF f.Status = "CONFIRMED"
                                         THEN Append(@, f) ELSE @] IN
    CASE f.Status \in {"NEW", "CONFIRMED", "REJECTED", "CANCELED"} ->
             [q EXCEPT !.status = f.Status]
      [] f.Status = "REFUNDED" ->
             [q EXCEPT !.status = "REFUNDED",
                       !.refunds = Append(@, IF HasAmount(f) THEN f.Amount ELSE 0)]
      [] OTHER -> [q EXCEPT !.status = IF f.Status # "" THEN f.Status ELSE @]

\* `if (order) order.status = ...` in each case of the switch
OrderStatusFor(st) ==
    CASE st = "NEW" -> "CREATED" [] st = "CONFIRMED" -> "COMPLETED" [] OTHER -> st

\* db.users after the switch
BalancesAfter(p, f) ==
    IF HasUser(p) /\ HasAmount(f) /\ f.Status \in {"CONFIRMED", "REFUNDED"}
    THEN [users EXCEPT ![p.telegramId].balance =
            IF f.Status = "CONFIRMED" THEN CreditBalance(@, f.Amount)
            ELSE DebitBalance(@, f.Amount)]
    ELSE users

\* the cases that end in `await notifyUser(...)`; notifyUser returns at once
\* when the payment has no telegramId (TELEGRAM_BOT_TOKEN is configured)
Notifies(p, st) ==
    st \in {"CONFIRMED", "REJECTED", "CANCELED", "REFUNDED"} /\ p.telegramId # NoOwner

\* the handler up to its await (or to its response when it has none)
WebhookHandle(n) ==
    IF ~TokenAccepted(n)
    THEN UNCHANGED vars
    ELSE LET f == n.f
             found == FindPayment(f)
             arr == WithStub(f)
             i == IF found = 0 THEN Len(arr) ELSE found
             p == arr[i]
         IN
         /\ payments' = [arr EXCEPT ![i] = Reconciled(p, f)]
         /\ orders' = IF f.Status \in {"NEW", "CONFIRMED", "REJECTED", "CANCELED", "REFUNDED"}
                      THEN SetOrderIfAny(p.id, OrderStatusFor(f.Status))
                      ELSE orders
         /\ users' = BalancesAfter(p, f)
         /\ pending' = IF Notifies(p, f.Status)
                       THEN Suspend(Cont("webhook", i, p.telegramId, 0, p.id))
                       ELSE pending
         /\ UNCHANGED <<clock, initial, paymentEvents>>

\* after `await notifyUser(...)`: `res.json({ success: true })`
WebhookRespond(r) ==
    /\ r \in BagToSet(pending) /\ r.kind = "webhook"
    /\ pending' = Resume(r)
    /\ UNCHANGED <<users, payments, orders, clock, initial, paymentEvents>>

-----------------------------------------------------------------------------
(* Merchant cancel and refund (part_004 lines 481-595).                    *)

\* `find(p.id === paymentId) || find(String(p.tinkoffPaymentId) === String(paymentId))`
\* for a path parameter that is an order id (oid) or a gateway id (gid, 0: none);
\* 0 when no payment matches or the match has no tinkoffPaymentId
MerchantTarget(oid, gid) ==
    LET i == FindPayment([OrderId |-> oid, PaymentId |-> gid]) IN
    IF i # 0 /\ payments[i].tinkoffPaymentId # 0 THEN i ELSE 0

\* POST /payments/:paymentId/cancel up to `await fetch(".../v2/Cancel")`
CancelBegin(oid, gid) ==
    LET i == MerchantTarget(oid, gid) IN
    IF i = 0
    THEN UNCHANGED vars
    ELSE /\ pending' = Suspend(Cont("cancel", i, payments[i].telegramId, 0, payments[i].id))
         /\ UNCHANGED <<users, payments, orders, clock, initial, paymentEvents>>

\* after the await; the notifyUser await that follows changes nothing
CancelEnd(r, answer) ==
    /\ r \in BagToSet(pending) /\ r.kind = "cancel"
    /\ pending' = Resume(r)
    /\ IF answer = "Success"
       THEN /\ payments' = [payments EXCEPT ![r.idx].status = "CANCELED"]
            /\ orders' = SetOrderIfAny(payments[r.idx].id, "CANCELED")
       ELSE UNCHANGED <<payments, orders>>
    /\ UNCHANGED <<users, clock, initial, paymentEvents>>

\* `amount ? Number(amount) : Number(payment.amount)`, in kopecks
RefundAmountFor(p, amount) == IF amount # 0 THEN Kopecks(amount) ELSE p.amount

\* the refund request passes the handler's own validation
RefundAccepted(p, amount) == RefundAmountFor(p, amount) > 0

\* POST /payments/:paymentId/refund up to `await fetch(".../v2/Refund")`
RefundBegin(oid, gid, amount) ==
    LET i == MerchantTarget(oid, gid) IN
    IF i = 0 \/ ~RefundAccepted(payments[i], amount)
    THEN UNCHANGED vars
    ELSE /\ pending' = Suspend(Cont("refund", i, payments[i].telegramId,
                                    RefundAmountFor(payments[i], amount), payments[i].id))
         /\ UNCHANGED <<users, payments, orders, clock, initial, paymentEvents>>

\* after the await; the notifyUser await that follows changes nothing
RefundEnd(r, answer) ==
    /\ r \in BagToSet(pending) /\ r.kind = "refund"
    /\ pending' = Resume(r)
    /\ IF answer = "Success"
       THEN LET p == payments[r.idx] IN
            /\ payments' = [payments EXCEPT ![r.idx].refunds = Append(@, r.amount),
                                            ![r.idx].status = "REFUNDED"]
            /\ orders' = SetOrderIfAny(p.id, "REFUNDED")
            /\ users' = IF HasUser(p)
                        THEN [users EXCEPT ![p.telegramId].balance = DebitBalance(@, r.amount)]
                        ELSE users
       ELSE UNCHANGED <<users, payments, orders>>
    /\ UNCHANGED <<clock, initial, paymentEvents>>

-----------------------------------------------------------------------------
(* The environment.  The code bounds nothing; the model stops sending the  *)
(* requests that would take a collection or a balance past its bound.      *)

RECURSIVE CopiesOfAll(_)
CopiesOfAll(S) ==
    IF S = {} THEN 0
    ELSE LET r == CHOOSE x \in S : TRUE IN CopiesIn(r, pending) + CopiesOfAll(S \ {r})

CreatesInFlight == CopiesOfAll({r \in BagToSet(pending) : r.kind = "create"})

\* db.payments may take one more record: recorded ones and creations in flight
RoomForPayment == Len(payments) + CreatesInFlight < MaxPayments

\* one more handler may be suspended
RoomInFlight == InFlight < MaxInFlight

\* the notifications handled so far for a payment: its history, less the
\* "NEW" entry that /payments/create writes
Deliveries(p) == IF p.telegramId = NoOwner THEN Len(p.history) ELSE Len(p.history) - 1

\* the payment a notification resolves to (the stub when there is none)
TargetOf(f) ==
    LET i == FindPayment(f) IN IF i = 0 THEN StubPayment(f) ELSE payments[i]

WebhookWithinBounds(n) ==
    LET f == n.f
        p == TargetOf(f)
    IN
    TokenAccepted(n) =>
        /\ FindPayment(f) = 0 => RoomForPayment
        /\ Deliveries(p) < MaxDeliveries
        /\ f.Status = "REFUNDED" => Len(p.refunds) < MaxRefunds
        /\ (f.Status = "CONFIRMED" /\ HasUser(p)) =>
               OrZero(users[p.telegramId].balance) + f.Amount <= MaxBalance
        /\ Notifies(p, f.Status) => RoomInFlight

RefundWithinBounds(oid, gid) ==
    LET i == MerchantTarget(oid, gid) IN
    i # 0 => Len(payments[i].refunds) < MaxRefunds

UserBodies == {Undef} \cup {Num(v) : v \in SyncBalances}

-----------------------------------------------------------------------------
(* The service: every request may arrive at any time.                      *)

Next ==
    \/ \E u \in Users, b \in UserBodies : UsersSync(u, b)
    \/ \E u \in Users : UpdateLevel(u)
    \/ \E u \in Users, a \in AdjustAmounts :
          OrZero(users[u].balance) + a <= MaxBalance /\ BalanceAdd(u, a)
    \/ \E u \in Users, a \in AdjustAmounts : BalanceSubtract(u, a)
    \/ \E u \in Users, a \in CreateAmounts :
          RoomInFlight /\ RoomForPayment /\ CreateBegin(u, a)
    \/ \E r \in BagToSet(pending), answer \in GatewayAnswers : CreateEnd(r, answer)
    \/ \E n \in Notifications : WebhookWithinBounds(n) /\ WebhookHandle(n)
    \/ \E r \in BagToSet(pending) : WebhookRespond(r)
    \/ \E oid \in OrderIdInputs, gid \in 0..MaxPayments :
          gid \in PaymentIdInputs(oid) /\ RoomInFlight /\ CancelBegin(oid, gid)
    \/ \E r \in BagToSet(pending), answer \in GatewayAnswers : CancelEnd(r, answer)
    \/ \E oid \in OrderIdInputs, gid \in 0..MaxPayments, a \in RefundAmounts :
          /\ gid \in PaymentIdInputs(oid)
          /\ RoomInFlight /\ RefundWithinBounds(oid, gid)
          /\ RefundBegin(oid, gid, a)
    \/ \E r \in BagToSet(pending), answer \in GatewayAnswers : RefundEnd(r, answer)

Spec == Init /\ [][Next]_vars

-----------------------------------------------------------------------------
(* SpecC6: the service started from a backup with accounts in it (loadDB,  *)
(* part_004 lines 72-84); the clients create top-ups and the gateway       *)
(* confirms each intent at most once, several handlers being in flight.    *)

\* db.users[u] in the backup: no account, an account without a balance field,
\* or an account with a balance
BackupAccounts ==
    {NoUser, [exists |-> TRUE, balance |-> Undef]}
        \cup {[exists |-> TRUE, balance |-> Num(v)] : v \in {0, 1000}}

InitC6 ==
    /\ users \in [AllUsers -> BackupAccounts]
    /\ payments = <<>>
    /\ orders = << >>
    /\ pending = EmptyBag
    /\ clock = 0
    /\ initial = users
    /\ paymentEvents = <<>>

\* amounts that differ, so that one account can hold two NEW intents at once
CreateAmountsC6 == {10, 20}

\* a correctly signed CONFIRMED notification for a recorded intent that has
\* had no notification yet (and is the record its OrderId resolves to): with
\* an Amount of the gateway's, or with none
FirstConfirmations ==
    {Notification(Fields(payments[i].id, payments[i].tinkoffPaymentId, "CONFIRMED", h, a),
                  "signed") :
        i \in {j \in 1..Len(payments) :
                 /\ Deliveries(payments[j]) = 0
                 /\ FindFirst(WithId(payments[j].id)) = j},
        h \in BOOLEAN, a \in NotifyAmounts}

NextC6 ==
    \/ clock < MaxClock /\ Tick
    \/ \E u \in Users, a \in CreateAmountsC6 :
          /\ InFlight < MaxConcurrent
          /\ Len(payments) + CreatesInFlight < MaxIntents
          /\ CreateBegin(u, a)
    \/ \E r \in BagToSet(pending), answer \in GatewayAnswers : CreateEnd(r, answer)
    \/ \E n \in FirstConfirmations : InFlight < MaxConcurrent /\ WebhookHandle(n)
    \/ \E r \in BagToSet(pending) : WebhookRespond(r)

SpecC6 == InitC6 /\ [][NextC6]_vars

-----------------------------------------------------------------------------
(* index.js lines 182-261: /payments/create and /payments/callback of the  *)
(* first revision.  It keeps no db.orders entry and no gateway id.         *)

\* `Date.now().toString()`
IdxOrderId == <<"", clock>>

\* up to `await fetch(".../v2/Init")`
IdxCreateBegin(u, amount) ==
    IF amount < 10
    THEN UNCHANGED vars
    ELSE /\ users' = EnsureUser(users, u)
         /\ pending' = Suspend(Cont("create", 0, u, amount, IdxOrderId))
         /\ UNCHANGED <<payments, orders, clock, initial, paymentEvents>>

IdxPayment(r) ==
    [id |-> r.oid, telegramId |-> r.tid, amount |-> Kopecks(r.amount), status |-> "pending"]

\* after `await tinkoffResp.json()`
IdxCreateEnd(r, answer) ==
    /\ r \in BagToSet(pending) /\ r.kind = "create"
    /\ pending' = Resume(r)
    /\ payments' = IF answer = "Success" THEN Append(payments, IdxPayment(r)) ELSE payments
    /\ UNCHANGED <<users, orders, clock, initial, paymentEvents>>

\* `balance += Amount / 100`: NaN when either side is not a number
IdxCredit(bal, f) == IF bal.k = "num" /\ f.hasAmount THEN Num(bal.v + f.Amount) ELSE NaN

\* the bodies the callback may receive; PaymentId is not read
IdxNotifications ==
    {Notification(Fields(oid, 0, st, h, a), k) :
        oid \in OrderIdInputs, st \in {"CONFIRMED", "REJECTED", "AUTHORIZED"},
        h \in BOOLEAN, a \in NotifyAmounts, k \in TokenKinds}

\* POST /payments/callback: the Token of the body is never looked at
IdxCallback(n) ==
    LET i == FindFirst(WithId(n.f.OrderId)) IN
    IF i = 0
    THEN UNCHANGED vars
    ELSE LET tid == payments[i].telegramId IN
         /\ payments' = [payments EXCEPT ![i].status =
                CASE n.f.Status = "CONFIRMED" -> "completed"
                  [] n.f.Status = "REJECTED"  -> "failed"
                  [] OTHER                    -> @]
         /\ users' = IF n.f.Status = "CONFIRMED" /\ users[tid].exists
                     THEN [users EXCEPT ![tid].balance = IdxCredit(@, n.f)]
                     ELSE users
         /\ UNCHANGED <<orders, pending, clock, initial, paymentEvents>>

\* the environment stops confirming once the owner's balance reached MaxBalance
IdxWithinBounds(n) ==
    LET i == FindFirst(WithId(n.f.OrderId)) IN
    i # 0 => OrZero(users[payments[i].telegramId].balance) < MaxBalance

NextIndex ==
    \/ clock < MaxClock /\ Tick
    \/ \E u \in AllUsers, a \in CreateAmounts :
          /\ InFlight < MaxConcurrent
          /\ Len(payments) + InFlight < MaxIntents
          /\ IdxCreateBegin(u, a)
    \/ \E r \in BagToSet(pending), g \in GatewayAnswers : IdxCreateEnd(r, g)
    \/ \E n \in IdxNotifications : IdxWithinBounds(n) /\ IdxCallback(n)

SpecIndex == Init /\ [][NextIndex]_vars

\* C2: a notification whose Token is absent, empty, or not the token computed
\* over its other fields changes no account balance and no payment status.
C2_BadTokenChangesNothing ==
    [][\A n \in IdxNotifications :
          (~TokenAccepted(n) /\ IdxCallback(n)) => UNCHANGED <<users, payments>>]_vars

-----------------------------------------------------------------------------
(* Properties of the webhook reconciler and of the merchant operations.    *)

\* a payment made by /payments/create, as opposed to a stub
IsIntent(p) == p.telegramId # NoOwner

\* the notification resolves to a recorded intent
HitsIntent(f) == FindPayment(f) # 0 /\ IsIntent(payments[FindPayment(f)])

RangeOf(s) == {s[k] : k \in 1..Len(s)}

\* C1: a correctly signed CONFIRMED notification that was already handled for
\* an intent (a duplicate delivery) leaves every balance as it is, so the
\* account is credited exactly once.
C1_DuplicateConfirmedCreditsOnce ==
    [][\A n \in Notifications :
          (/\ TokenAccepted(n)
           /\ n.f.Status = "CONFIRMED"
           /\ HitsIntent(n.f)
           /\ n.f \in RangeOf(payments[FindPayment(n.f)].confirmations)
           /\ WebhookHandle(n))
          => users' = users]_vars

\* C3: every account's balance is a number greater than or equal to zero (an
\* account without a balance field counts as zero).
C3_BalanceNeverNegative ==
    \A u \in AllUsers :
        users[u].exists => users[u].balance.k # "nan" /\ OrZero(users[u].balance) >= 0

AllowedTransitions ==
    {<<"NEW", "CONFIRMED">>, <<"NEW", "REJECTED">>, <<"NEW", "CANCELED">>,
     <<"CONFIRMED", "REFUNDED">>}

\* C4: the status of an intent changes only along NEW -> CONFIRMED,
\* NEW -> REJECTED, NEW -> CANCELED and CONFIRMED -> REFUNDED.
C4_StatusMonotonic ==
    [][\A i \in 1..Len(payments) :
          (IsIntent(payments[i]) /\ payments'[i].status # payments[i].status)
          => <<payments[i].status, payments'[i].status>> \in AllowedTransitions]_vars

\* the requested status cannot follow the intent's current one
Incompatible(p, requested) ==
    \/ requested = "CONFIRMED" /\ p.status \in {"REJECTED", "CANCELED"}
    \/ requested = "REFUNDED" /\ (p.status = "REFUNDED" \/ "CONFIRMED" \notin RangeOf(p.history))

\* C5: a correctly signed notification whose status is incompatible with the
\* terminal status the intent already has leaves every balance as it is.
C5_IncompatibleNotificationNoBalanceEffect ==
    [][\A n \in Notifications :
          (/\ TokenAccepted(n)
           /\ HitsIntent(n.f)
           /\ Incompatible(payments[FindPayment(n.f)], n.f.Status)
           /\ WebhookHandle(n))
          => users' = users]_vars

\* C7: the CONFIRMED branch sets the intent CONFIRMED if and only if it credits
\* the owning account with the confirmed amount (the gateway's Amount, the
\* intent's own amount when the notification carries none).
C7_ConfirmedIffCredited ==
    [][\A n \in Notifications :
          (/\ TokenAccepted(n)
           /\ n.f.Status = "CONFIRMED"
           /\ HitsIntent(n.f)
           /\ WebhookHandle(n))
          => LET i == FindPayment(n.f)
                 p == payments[i]
                 confirmed == IF HasAmount(n.f) THEN n.f.Amount ELSE p.amount
             IN  payments'[i].status = "CONFIRMED"
                 <=> /\ users[p.telegramId].exists
                     /\ users'[p.telegramId].balance
                            = Num(OrZero(users[p.telegramId].balance) + confirmed)]_vars

\* C8: a correctly signed CONFIRMED notification whose Amount differs from the
\* amount recorded on the intent neither confirms the intent nor credits the
\* account.
C8_AmountMismatchRejected ==
    [][\A n \in Notifications :
          (/\ TokenAccepted(n)
           /\ n.f.Status = "CONFIRMED"
           /\ HitsIntent(n.f)
           /\ n.f.hasAmount
           /\ n.f.Amount # payments[FindPayment(n.f)].amount
           /\ WebhookHandle(n))
          => /\ payments'[FindPayment(n.f)].status = payments[FindPayment(n.f)].status
             /\ users' = users]_vars

\* C9: the refund records of an intent never add up to more than its amount.
C9_RefundsWithinConfirmedAmount ==
    \A i \in 1..Len(payments) :
        IsIntent(payments[i]) => SumSeq(payments[i].refunds) <= payments[i].amount

\* C10: a merchant refund of a CONFIRMED intent for more than the intent's
\* amount less its earlier refunds is rejected before any Refund call goes to
\* the gateway, and changes nothing.
C10_OverRefundRejectedLocally ==
    [][\A oid \in OrderIdInputs, gid \in 0..MaxPayments, a \in RefundAmounts :
          (/\ gid \in PaymentIdInputs(oid)
           /\ MerchantTarget(oid, gid) # 0
           /\ LET p == payments[MerchantTarget(oid, gid)] IN
              /\ IsIntent(p)
              /\ p.status = "CONFIRMED"
              /\ RefundAmountFor(p, a) > p.amount - SumSeq(p.refunds)
           /\ RefundBegin(oid, gid, a))
          => UNCHANGED vars]_vars

-----------------------------------------------------------------------------
(* C6, under SpecC6.                                                       *)

RECURSIVE AmountSum(_)
AmountSum(s) == IF s = <<>> THEN 0 ELSE Head(s).Amount + AmountSum(Tail(s))

\* the Amounts of the CONFIRMED notifications handled for the intents of u
RECURSIVE ConfirmedTotal(_, _)
ConfirmedTotal(u, k) ==
    IF k = 0 THEN 0
    ELSE ConfirmedTotal(u, k - 1)
           + (IF payments[k].telegramId = u THEN AmountSum(payments[k].confirmations) ELSE 0)

\* C6: whatever the interleaving of the CONFIRMED deliveries for distinct
\* intents of an account, its balance is its initial balance plus the sum of
\* the Amounts of the notifications handled; no credit is lost or doubled.
C6_NoLostCredit ==
    \A u \in AllUsers :
        OrZero(users[u].balance)
            = OrZero(initial[u].balance) + ConfirmedTotal(u, Len(payments))

\* two intents of one account, which had a balance, are CONFIRMED with an
\* Amount each, and both handlers are still waiting in notifyUser
C6_TwoConfirmationsInFlight ==
    \E i, j \in 1..Len(payments) :
        /\ i # j
        /\ payments[i].telegramId = payments[j].telegramId
        /\ OrZero(initial[payments[i].telegramId].balance) > 0
        /\ \A k \in {i, j} :
              /\ payments[k].status = "CONFIRMED"
              /\ AmountSum(payments[k].confirmations) > 0
              /\ \E r \in BagToSet(pending) : r.kind = "webhook" /\ r.idx = k

-----------------------------------------------------------------------------
(* The merchant operations on intents that are already final.              *)

\* C11: a merchant cancel of an intent that is CONFIRMED, REJECTED, CANCELED
\* or REFUNDED, and a merchant refund of an intent that is not CONFIRMED, are
\* rejected in the handler: no Cancel or Refund call goes to the gateway and
\* nothing changes.
C11_FinalIntentRejectedLocally ==
    [][\A oid \in OrderIdInputs, gid \in 0..MaxPayments :
          (/\ gid \in PaymentIdInputs(oid)
           /\ MerchantTarget(oid, gid) # 0
           /\ IsIntent(payments[MerchantTarget(oid, gid)]))
          => LET p == payments[MerchantTarget(oid, gid)] IN
             /\ (/\ p.status \in {"CONFIRMED", "REJECTED", "CANCELED", "REFUNDED"}
                 /\ CancelBegin(oid, gid))
                => UNCHANGED vars
             /\ \A a \in RefundAmounts :
                   (p.status # "CONFIRMED" /\ RefundBegin(oid, gid, a))
                   => UNCHANGED vars]_vars

-----------------------------------------------------------------------------
(* Retried and doubled /payments/create requests, under SpecC6.            *)

\* how /payments/create answers a request, up to its first await: 400 for an
\* invalid amount, the existing active payment of this user and amount, or a
\* new order id on its way to Init.  A key sent in the body is never read.
CreateReply(u, amount) ==
    IF CreateInvalid(u, amount)
    THEN [outcome |-> "invalid", paymentId |-> UnknownOrder]
    ELSE IF ExistingPayment(u, amount) # 0
    THEN [outcome |-> "existing", paymentId |-> payments[ExistingPayment(u, amount)].id]
    ELSE [outcome |-> "init", paymentId |-> OrderIdFor(u)]

\* C12: while an intent is NEW, a create request of its account that repeats
\* its order id as the idempotency key is answered with that intent when the
\* amount is the intent's, and goes on to a fresh intent when it is not.
C12_RetryReturnsIntentOfKey ==
    \A k \in 1..Len(payments), a \in CreateAmountsC6 :
        (IsIntent(payments[k]) /\ payments[k].status \in {"NEW", "PENDING"})
        => LET reply == CreateReply(payments[k].telegramId, a) IN
           IF Kopecks(a) = payments[k].amount
           THEN reply = [outcome |-> "existing", paymentId |-> payments[k].id]
           ELSE reply.outcome = "init"

\* C13: a create request for an account and amount that arrives while an
\* earlier one for the same account and amount still waits for Init sends no
\* second Init call and leads to no second intent.
C13_DoubleTapSendsOneInit ==
    [][\A u \in Users, a \in CreateAmountsC6 :
          (/\ \E r \in BagToSet(pending) : r.kind = "create" /\ r.tid = u /\ r.amount = a
           /\ CreateBegin(u, a))
          => pending' = pending]_vars

-----------------------------------------------------------------------------
(* Orders and intents.                                                     *)

\* the create handler that wrote this order is still waiting for Init
CreateInFlight(oid) == \E r \in BagToSet(pending) : r.kind = "create" /\ r.oid = oid

\* C14: once its create handler has finished, every order has exactly one
\* payment intent with its id, and every intent has its order.
C14_OrderAndIntentTogether ==
    /\ \A oid \in DOMAIN orders :
          ~CreateInFlight(oid)
          => Cardinality({i \in WithId(oid) : IsIntent(payments[i])}) = 1
    /\ \A i \in 1..Len(payments) :
          IsIntent(payments[i]) => payments[i].id \in DOMAIN orders

-----------------------------------------------------------------------------
(* The top-up scenario, under SpecC6.                                      *)

\* C15: the first correctly signed CONFIRMED notification for a created
\* intent, reporting the gateway amount g, takes the owner's balance b to
\* b + g (g, not the amount the intent was created with) and the intent to
\* CONFIRMED.
C15_ConfirmedCreditsGatewayAmount ==
    [][\A n \in FirstConfirmations :
          (n.f.hasAmount /\ WebhookHandle(n))
          => LET i == FindPayment(n.f)
                 tid == payments[i].telegramId
             IN  /\ users'[tid].balance = Num(OrZero(users[tid].balance) + n.f.Amount)
                 /\ payments'[i].status = "CONFIRMED"]_vars

\* an account that had a balance owns one intent, created for 10 and
\* confirmed once by the gateway for 20, and has been credited the 20
C15_CreditedGatewayAmount ==
    \E i \in 1..Len(payments) :
        LET p == payments[i] IN
        /\ IsIntent(p)
        /\ p.status = "CONFIRMED"
        /\ p.amount = 1000
        /\ Len(p.confirmations) = 1 /\ p.confirmations[1].Amount = 2000
        /\ \A j \in 1..Len(payments) : payments[j].telegramId = p.telegramId => j = i
        /\ initial[p.telegramId].balance = Num(1000)
        /\ users[p.telegramId].balance = Num(3000)

-----------------------------------------------------------------------------
(* SpecRefund: a fresh service on which top-ups are created, confirmed     *)
(* once by the gateway and refunded by the merchant, in part or in full.   *)

\* body.amount of the merchant refund, in currency units (0: absent)
PartialRefunds == {0, 4}

NextRefund ==
    \/ \E u \in Users, a \in CreateAmountsC6 :
          /\ RoomInFlight
          /\ RoomForPayment
          /\ CreateBegin(u, a)
    \/ \E r \in BagToSet(pending), answer \in GatewayAnswers : CreateEnd(r, answer)
    \/ \E n \in FirstConfirmations : RoomInFlight /\ WebhookHandle(n)
    \/ \E r \in BagToSet(pending) : WebhookRespond(r)
    \/ \E oid \in OrderIdInputs, gid \in 0..MaxPayments, a \in PartialRefunds :
          /\ gid \in PaymentIdInputs(oid)
          /\ RoomInFlight /\ RefundWithinBounds(oid, gid)
          /\ RefundBegin(oid, gid, a)
    \/ \E r \in BagToSet(pending), answer \in GatewayAnswers : RefundEnd(r, answer)

SpecRefund == Init /\ [][NextRefund]_vars

\* the intent was confirmed for its own amount A, nothing of it was refunded,
\* and the owner's balance is A
ConfirmedAndUntouched(p) ==
    /\ IsIntent(p)
    /\ p.status = "CONFIRMED"
    /\ Len(p.confirmations) = 1 /\ p.confirmations[1].Amount = p.amount
    /\ p.refunds = <<>>
    /\ users[p.telegramId].balance = Num(p.amount)

\* C16: when the gateway accepts a merchant refund of r, 0 < r < A, for an
\* intent confirmed for A on a fresh account, the balance becomes A - r, the
\* intent REFUNDED, and its refunds list the single entry r.
C16_PartialRefundSettles ==
    [][\A r \in BagToSet(pending) :
          (/\ r.kind = "refund"
           /\ ConfirmedAndUntouched(payments[r.idx])
           /\ 0 < r.amount /\ r.amount < payments[r.idx].amount
           /\ RefundEnd(r, "Success"))
          => /\ users'[r.tid].balance = Num(payments[r.idx].amount - r.amount)
             /\ payments'[r.idx].status = "REFUNDED"
             /\ payments'[r.idx].refunds = <<r.amount>>]_vars

\* a top-up of 10 was confirmed and 4 of it refunded
C16_RefundedFourOfTen ==
    \E i \in 1..Len(payments) :
        LET p == payments[i] IN
        /\ IsIntent(p)
        /\ p.amount = 1000
        /\ Len(p.confirmations) = 1 /\ p.confirmations[1].Amount = 1000
        /\ p.status = "REFUNDED"
        /\ p.refunds = <<400>>
        /\ users[p.telegramId].balance = Num(600)

-----------------------------------------------------------------------------
(* Spec002: src/unnamed/part_002 on a fresh database.  Its db.orders is an *)
(* object (lines 29-37) on which the handlers call push and find, so       *)
(* /payments/create throws before it records anything but the account,    *)
(* and the webhook throws as soon as it has found a payment.               *)

MaxEvents == 5       \* entries in db.paymentEvents (Spec002)

\* logPaymentEvent keeps the last LogKeep entries once there are more than LogLimit
LogLimit == 5000
LogKeep == 3000

\* logPaymentEvent(event, { OrderId })
logPaymentEvent(log, event, oid) ==
    LET pushed == Append(log, <<event, oid>>) IN
    IF Len(pushed) > LogLimit
    THEN SubSeq(pushed, Len(pushed) - LogKeep + 1, Len(pushed))
    ELSE pushed

\* tinkoffNotificationToken: the values of the fields in the order of the
\* sorted keys (Amount, OrderId, PaymentId, Status), then the password.  The
\* CRC32 of the string is kept as the string itself.
tinkoffNotificationToken(f, password) ==
    <<IF f.hasAmount THEN <<f.Amount>> ELSE <<>>, f.OrderId, f.PaymentId, f.Status, password>>

Token002(f, kind) ==
    CASE kind = "signed"  -> [present |-> TRUE, value |-> tinkoffNotificationToken(f, Secret)]
      [] kind = "altered" -> [present |-> TRUE,
                              value |-> tinkoffNotificationToken(
                                  [f EXCEPT !.hasAmount = TRUE, !.Amount = OtherAmount(f)], Secret)]
      [] kind = "forged"  -> [present |-> TRUE, value |-> tinkoffNotificationToken(f, WrongSecret)]
      [] kind = "empty"   -> [present |-> TRUE, value |-> <<>>]
      [] OTHER            -> [present |-> FALSE, value |-> <<>>]

Notifications002 ==
    {[f |-> f, Token |-> Token002(f, k)] :
        f \in {g \in NotificationFields : g.PaymentId = 0}, k \in TokenKinds}

\* `receivedToken !== undefined && receivedToken !== "" && expectedToken !== receivedToken`
TokenRefused002(n) ==
    /\ n.Token.present
    /\ n.Token.value # <<>>
    /\ n.Token.value # tinkoffNotificationToken(n.f, Secret)

\* the HTTP status POST /payments/webhook/tinkoff answers with: 400 for a
\* refused token, 404 when no payment matches, and 500 from Express when
\* `db.orders.find` throws for a payment that was found
WebhookReply002(n) ==
    IF TokenRefused002(n) THEN 400
    ELSE IF WithId(n.f.OrderId) = {} THEN 404
    ELSE 500

\* POST /payments/webhook/tinkoff
Webhook002(n) ==
    /\ paymentEvents' =
          IF TokenRefused002(n)
          THEN logPaymentEvent(paymentEvents, "WEBHOOK_INVALID_TOKEN", n.f.OrderId)
          ELSE IF WithId(n.f.OrderId) = {}
          THEN logPaymentEvent(paymentEvents, "WEBHOOK_PAYMENT_NOT_FOUND", n.f.OrderId)
          ELSE paymentEvents
    /\ UNCHANGED <<users, payments, orders, pending, clock, initial>>

\* POST /payments/create of part_002: 400 for an invalid amount; otherwise the
\* account is made, and the handler either returns the payment already
\* recorded for the order id or ends in the TypeError of
\* `db.orders.push(order)`: neither changes anything else
Create002(u, amount) ==
    IF amount < 10
    THEN UNCHANGED vars
    ELSE /\ users' = EnsureUser(users, u)
         /\ UNCHANGED <<payments, orders, pending, clock, initial, paymentEvents>>

Next002 ==
    \/ clock < MaxClock /\ Tick
    \/ \E u \in AllUsers, a \in CreateAmounts : Create002(u, a)
    \/ \E n \in Notifications002 : Len(paymentEvents) < MaxEvents /\ Webhook002(n)

Spec002 == Init /\ [][Next002]_vars

\* C17: whatever notification arrives, the webhook answers it with HTTP 200,
\* never with a 4xx or a 5xx.
C17_WebhookAlwaysAnswers200 ==
    \A n \in Notifications002 : WebhookReply002(n) = 200

-----------------------------------------------------------------------------
(* The webhook on notifications that match no intent, under Spec.          *)

\* C18: a correctly signed notification that resolves to no payment intent
\* (to nothing, or to the stub an earlier one left) leaves db.users as it is,
\* whatever its Status.
C18_UnmatchedNotificationKeepsBalances ==
    \A n \in Notifications :
        (TokenAccepted(n) /\ ~HitsIntent(n.f))
        => BalancesAfter(TargetOf(n.f), n.f) = users

\* a stub has taken a CONFIRMED and a REFUNDED notification, each with an
\* Amount, while an account with money on it exists
C18_StubConfirmedAndRefunded ==
    \E i \in 1..Len(payments) :
        /\ ~IsIntent(payments[i])
        /\ payments[i].history = <<"CONFIRMED", "REFUNDED">>
        /\ Len(payments[i].confirmations) = 1 /\ payments[i].confirmations[1].hasAmount
        /\ payments[i].refunds # <<>> /\ payments[i].refunds[1] > 0
        /\ users["42"].exists /\ OrZero(users["42"].balance) > 0

-----------------------------------------------------------------------------
(* The audit history and the REFUNDED branch of the webhook, under Spec.   *)

IsPrefix(s, t) == Len(s) <= Len(t) /\ SubSeq(t, 1, Len(s)) = s

\* C19: every correctly signed notification that resolves to an intent adds
\* exactly one entry, its raw status, to the end of that intent's history,
\* whatever the status; and no step of any operation removes, reorders or
\* changes the entries a payment's history already has.
C19_HistoryAppendOnly ==
    /\ [](\A n \in Notifications :
            (TokenAccepted(n) /\ HitsIntent(n.f))
            => Reconciled(TargetOf(n.f), n.f).history
                  = Append(TargetOf(n.f).history, n.f.Status))
    /\ [][\A i \in 1..Len(payments) :
            IsPrefix(payments[i].history, payments'[i].history)]_vars

\* an intent's history holds two notifications after its NEW entry, the
\* second of which asked for a transition the state machine does not have
C19_HistoryHoldsRejectedTransition ==
    \E i \in 1..Len(payments) :
        /\ IsIntent(payments[i])
        /\ payments[i].history = <<"NEW", "REJECTED", "CONFIRMED">>

\* C20: a correctly signed REFUNDED notification with an Amount, for an intent
\* that is CONFIRMED, adds one refund record of that Amount, sets the intent
\* REFUNDED and the owner's balance to max(0, balance - Amount), also when the
\* Amount is more than what is left of the intent's amount.
C20_RefundedNotificationApplied ==
    \A n \in Notifications :
        (/\ TokenAccepted(n)
         /\ n.f.Status = "REFUNDED"
         /\ HasAmount(n.f)
         /\ HitsIntent(n.f)
         /\ TargetOf(n.f).status = "CONFIRMED"
         /\ HasUser(TargetOf(n.f)))
        => LET p == TargetOf(n.f)
               b == OrZero(users[p.telegramId].balance)
           IN  /\ Reconciled(p, n.f).refunds = Append(p.refunds, n.f.Amount)
               /\ Reconciled(p, n.f).status = "REFUNDED"
               /\ BalancesAfter(p, n.f)[p.telegramId].balance
                     = Num(IF b > n.f.Amount THEN b - n.f.Amount ELSE 0)

\* an intent of 10, confirmed for 10, took a REFUNDED notification for 20: the
\* refund is recorded in full and the balance is zero
C20_OverRefundFloored ==
    \E i \in 1..Len(payments) :
        LET p == payments[i] IN
        /\ IsIntent(p)
        /\ p.amount = 1000
        /\ p.history = <<"NEW", "CONFIRMED", "REFUNDED">>
        /\ Len(p.confirmations) = 1 /\ p.confirmations[1].Amount = 1000
        /\ p.status = "REFUNDED"
        /\ p.refunds = <<2000>>
        /\ users[p.telegramId].balance = Num(0)

-----------------------------------------------------------------------------
(* C21: the profile sync POST /users never changes the balance of an       *)
(* existing account and creates a missing account with balance zero,       *)
(* whatever balance the request body carries.                              *)

C21_ProfileSyncKeepsBalance ==
    [][\A u \in Users, b \in UserBodies :
          UsersSync(u, b) =>
              users'[u].balance =
                  IF users[u].exists THEN users[u].balance ELSE Num(0)]_vars

(* C22: a debit of more than the account's balance is refused and changes  *)
(* nothing, for every account however it was created; an account without   *)
(* a balance field counts as balance zero.                                 *)

C22_OverdraftRefused ==
    [][\A u \in Users, a \in AdjustAmounts :
          (/\ users[u].exists
           /\ a > 0
           /\ a > OrZero(users[u].balance)
           /\ BalanceSubtract(u, a))
          => users' = users]_vars

(* C27: balance add and balance subtract with amount <= 0 fail and leave   *)
(* the whole store unchanged: no account is created, no balance modified.  *)

C27_InvalidAmountChangesNothing ==
    [][\A u \in Users, a \in AdjustAmounts :
          (a <= 0 /\ (BalanceAdd(u, a) \/ BalanceSubtract(u, a)))
          => UNCHANGED vars]_vars

-----------------------------------------------------------------------------
(* The PostgreSQL revision, src/unnamed/part_001: the balance handlers     *)
(* await one query after another, and each query is one atomic statement.  *)
(* `users` stands for the users table (balance INTEGER DEFAULT 0).         *)

\* POST /users/:telegramId/balance/add: a single upsert adds the amount
BalanceAdd001(u, amount) ==
    /\ users' =
          IF amount <= 0 THEN users
          ELSE IF users[u].exists
          THEN [users EXCEPT ![u].balance = Num(users[u].balance.v + amount)]
          ELSE [users EXCEPT ![u] = [exists |-> TRUE, balance |-> Num(amount)]]
    /\ UNCHANGED <<payments, orders, pending, clock, initial, paymentEvents>>

\* POST /users/:telegramId/balance/subtract up to the UPDATE: the amount is
\* validated, the balance is SELECTed and compared, and the handler awaits
\* the UPDATE it has sent
BalanceSubtractBegin001(u, amount) ==
    /\ pending' =
          IF amount <= 0 \/ ~users[u].exists \/ users[u].balance.v < amount
          THEN pending
          ELSE Suspend(Cont("subtract", 0, u, amount, UnknownOrder))
    /\ UNCHANGED <<users, payments, orders, clock, initial, paymentEvents>>

\* the UPDATE runs: `balance = balance - $1` on the row as it is now
BalanceSubtractEnd001(r) ==
    /\ r.kind = "subtract"
    /\ pending' = Resume(r)
    /\ users' = [users EXCEPT ![r.tid].balance = Num(users[r.tid].balance.v - r.amount)]
    /\ UNCHANGED <<payments, orders, clock, initial, paymentEvents>>

\* the amounts of the add and subtract requests
LedgerAmounts == {0, 1000, 2000}

Next001 ==
    \/ \E u \in AllUsers, a \in LedgerAmounts :
          OrZero(users[u].balance) + a <= MaxBalance /\ BalanceAdd001(u, a)
    \/ \E u \in AllUsers, a \in LedgerAmounts :
          InFlight < MaxConcurrent /\ BalanceSubtractBegin001(u, a)
    \/ \E r \in BagToSet(pending) : BalanceSubtractEnd001(r)

Spec001 == Init /\ [][Next001]_vars

(* C23: credit and debit are atomic per account: every successful debit    *)
(* was checked against the balance it is applied to, so no interleaving of *)
(* concurrent balance/subtract and balance/add requests makes a balance    *)
(* negative.                                                               *)

C23_DebitCheckedAgainstAppliedBalance ==
    /\ \A u \in AllUsers : users[u].exists => users[u].balance.v >= 0
    /\ [][\A r \in BagToSet(pending) :
              BalanceSubtractEnd001(r) => users[r.tid].balance.v >= r.amount]_vars

-----------------------------------------------------------------------------
(* Liveness of the webhook response (part_004 lines 44-60 and 413-466).    *)
(* notifyUser awaits fetch() inside try/catch: a send that succeeds or     *)
(* fails settles the promise the handler awaits, and the event loop then   *)
(* runs the rest of the handler (WebhookRespond, weakly fair). A send the  *)
(* Telegram API never answers leaves that promise pending.                 *)

\* the fetch() of notifyUser is one that never settles
NotifyNeverCompletes(r) ==
    /\ r \in BagToSet(pending) /\ r.kind = "webhook"
    /\ pending' = Resume(r) (+) SetToBag({[r EXCEPT !.kind = "webhook-hung"]})
    /\ UNCHANGED <<users, payments, orders, clock, initial, paymentEvents>>

\* a webhook handler has applied its notification and not answered yet
WebhookAwaiting ==
    \E r \in BagToSet(pending) : r.kind \in {"webhook", "webhook-hung"}

NextNotify ==
    \/ \E u \in Users, a \in CreateAmountsC6 :
          /\ InFlight < MaxConcurrent
          /\ Len(payments) + CreatesInFlight < MaxIntents
          /\ CreateBegin(u, a)
    \/ \E r \in BagToSet(pending), answer \in GatewayAnswers : CreateEnd(r, answer)
    \/ \E n \in FirstConfirmations : InFlight < MaxConcurrent /\ WebhookHandle(n)
    \/ \E r \in BagToSet(pending) : WebhookRespond(r)
    \/ \E r \in BagToSet(pending) : NotifyNeverCompletes(r)

SpecNotify ==
    /\ Init
    /\ [][NextNotify]_vars
    /\ WF_vars(\E r \in BagToSet(pending) : WebhookRespond(r))

(* C24: the user-notification send never blocks reconciliation: for every  *)
(* valid notification the webhook response is eventually sent, even if the *)
(* outbound send fails or never completes.                                 *)

C24_WebhookEventuallyAnswered == WebhookAwaiting ~> ~WebhookAwaiting

(* C25: in every reachable state the payment intents have pairwise         *)
(* distinct ids: two POST /payments/create calls that each create a new    *)
(* intent never produce the same orderId, even in the same millisecond.    *)

C25_IntentIdsDistinct ==
    \A i, j \in 1..Len(payments) :
        (i # j /\ IsIntent(payments[i]) /\ IsIntent(payments[j]))
        => payments[i].id # payments[j].id

(* C26: POST /payments/create with an amount below 10, with no amount or   *)
(* with no account id is answered with the 400 error, sends no Init call   *)
(* to the gateway and leaves accounts, orders and intents unchanged: in    *)
(* every reachable state such a request has no step that changes anything. *)

C26_InvalidCreateChangesNothing ==
    \A u \in Users \cup {NoId}, a \in CreateAmounts :
        (u = NoId \/ a < 10) =>
            /\ CreateReply(u, a).outcome = "invalid"
            /\ ~ENABLED (CreateBegin(u, a) /\ vars' # vars)

\* an account with an intent is there to be changed, and the request of
\* amount 5 for it is refused
C26_RefusedWithIntentRecorded ==
    /\ \E i \in 1..Len(payments) : payments[i].telegramId = "42"
    /\ users["42"].exists
    /\ CreateReply("42", 5).outcome = "invalid"
    /\ ENABLED CreateBegin("42", 5)

(* C28: a merchant refund of amount r that succeeded at the gateway and    *)
(* the gateway's REFUNDED notification reporting that refund together      *)
(* debit the account once and leave one refund record of amount r: when    *)
(* the intent holds the merchant's record of r and no REFUNDED             *)
(* notification has been handled yet, handling the notification of r adds  *)
(* no record and changes no balance.                                       *)

C28_RefundAndItsNotificationOnce ==
    \A n \in Notifications :
        (/\ TokenAccepted(n)
         /\ n.f.Status = "REFUNDED"
         /\ HasAmount(n.f)
         /\ HitsIntent(n.f)
         /\ TargetOf(n.f).status = "REFUNDED"
         /\ TargetOf(n.f).refunds = <<n.f.Amount>>
         /\ "REFUNDED" \notin RangeOf(TargetOf(n.f).history))
        => /\ Reconciled(TargetOf(n.f), n.f).refunds = TargetOf(n.f).refunds
           /\ BalancesAfter(TargetOf(n.f), n.f) = users

(* C29: in every reachable state an intent whose status is CANCELED or     *)
(* REJECTED has contributed no net credit to its account: whatever its     *)
(* CONFIRMED notifications credited has been refunded.                     *)

C29_CanceledIntentHoldsNoCredit ==
    \A i \in 1..Len(payments) :
        (IsIntent(payments[i]) /\ payments[i].status \in {"CANCELED", "REJECTED"})
        => AmountSum(payments[i].confirmations) <= SumSeq(payments[i].refunds)

-----------------------------------------------------------------------------
(* Top-up and merchant refund with two handlers in flight at once.         *)

NextRefundRace ==
    \/ \E u \in Users, a \in CreateAmountsC6 :
          /\ RoomInFlight
          /\ RoomForPayment
          /\ CreateBegin(u, a)
    \/ \E r \in BagToSet(pending), answer \in GatewayAnswers : CreateEnd(r, answer)
    \/ \E n \in FirstConfirmations : RoomInFlight /\ WebhookHandle(n)
    \/ \E r \in BagToSet(pending) : WebhookRespond(r)
    \/ \E oid \in OrderIdInputs, gid \in 0..MaxPayments, a \in PartialRefunds :
          /\ gid \in PaymentIdInputs(oid)
          /\ InFlight < MaxConcurrent /\ RefundWithinBounds(oid, gid)
          /\ RefundBegin(oid, gid, a)
    \/ \E r \in BagToSet(pending), answer \in GatewayAnswers : RefundEnd(r, answer)

SpecRefundRace == Init /\ [][NextRefundRace]_vars

\* the Refund calls for the full amount of payments[i] the gateway has been
\* sent and has not answered yet
FullRefundsInFlight(i) ==
    CopiesOfAll({r \in BagToSet(pending) :
                    r.kind = "refund" /\ r.idx = i /\ r.amount = payments[i].amount})

(* C30: of two concurrent merchant refund requests for the same CONFIRMED  *)
(* intent, each for the full confirmed amount, at most one sends a Refund  *)
(* call to the gateway: a CONFIRMED intent never has two full refunds in   *)
(* flight.                                                                 *)

C30_OneFullRefundInFlight ==
    \A i \in 1..Len(payments) :
        (IsIntent(payments[i]) /\ payments[i].status = "CONFIRMED")
        => FullRefundsInFlight(i) <= 1

=============================================================================
